---- MODULE Spec2Model ----
(***************************************************************************)
(* AirMailX Sender: the recipient parser (parse_receivers), the entry      *)
(* point API.send_emails and the bulk-send worker (send_bulk_emails) of    *)
(* src/Final_working-email5.py.                                            *)
(*                                                                         *)
(* Strings that the code inspects character by character (the receivers    *)
(* text and the recipients) are sequences of one-character strings.        *)
(* Strings the code only copies (sender, subject, body) are TLA+ strings.  *)
(* The numeric form fields arrive as strings and go through float().       *)
(* Real-valued delays are drawn from the integers of the interval.         *)
(***************************************************************************)
EXTENDS Integers, Sequences, FiniteSets, TLC

\* ------------------------------------------------------------------ bounds
\* Worker threads the state has room for: the invocations of
\* API.send_emails that SpecOverlap lets arrive.
MaxRuns == 2
\* Invocations of API.send_emails that Spec lets arrive.
MaxInvocations == 1
\* Number of tokens a receivers text of SpecParse is made of.
MaxTokens == 4

Runs == 1..MaxRuns
UI == 0
Threads == 0..MaxRuns

\* ------------------------------------------------------- characters, str
Delims == {",", "\n", ";"}
Whitespace == {" ", "\t", "\n", "\r"}

UpperChars == <<"A","B","C","D","E","F","G","H","I","J","K","L","M",
                "N","O","P","Q","R","S","T","U","V","W","X","Y","Z">>
LowerChars == <<"a","b","c","d","e","f","g","h","i","j","k","l","m",
                "n","o","p","q","r","s","t","u","v","w","x","y","z">>

\* str.lower() on one character
lowerChar(c) ==
    IF \E k \in 1..26 : UpperChars[k] = c
    THEN LowerChars[CHOOSE k \in 1..26 : UpperChars[k] = c]
    ELSE c

\* str.lower()
lower(s) == [k \in 1..Len(s) |-> lowerChar(s[k])]

\* str.strip(): drop leading and trailing whitespace
RECURSIVE lstrip(_)
lstrip(s) ==
    IF s # <<>> /\ Head(s) \in Whitespace THEN lstrip(Tail(s)) ELSE s

RECURSIVE rstrip(_)
rstrip(s) ==
    IF s # <<>> /\ s[Len(s)] \in Whitespace
    THEN rstrip(SubSeq(s, 1, Len(s) - 1))
    ELSE s

strip(s) == rstrip(lstrip(s))

\* re.split(r"[,\n;]+", text): the pieces between runs of delimiters; a
\* delimiter run at either end of the text leaves an empty piece there.
RECURSIVE splitFrom(_, _, _)
splitFrom(text, k, cur) ==
    IF k > Len(text) THEN <<cur>>
    ELSE IF text[k] \in Delims
         THEN IF k > 1 /\ text[k - 1] \in Delims
              THEN splitFrom(text, k + 1, cur)
              ELSE <<cur>> \o splitFrom(text, k + 1, <<>>)
         ELSE splitFrom(text, k + 1, Append(cur, text[k]))

re_split(text) == splitFrom(text, 1, <<>>)

\* EMAIL_RE = ^[^@\s]+@[^@\s]+\.[^@\s]+$ matched against a stripped entry
EMAIL_RE_match(e) ==
    \E at \in 2..Len(e) :
        /\ e[at] = "@"
        /\ \A k \in 1..Len(e) : e[k] \notin Whitespace /\ (e[k] = "@" => k = at)
        /\ \E dot \in (at + 2)..(Len(e) - 1) : e[dot] = "."

ParseWarning(e) == <<"Warning", e>>

\* Defective variants of parseStep: one appends without looking at `seen`,
\* one keeps the last occurrence instead of the first.
parseStepSkipDedup(st, p) ==
    LET e == strip(p) IN
    IF e = <<>> THEN st
    ELSE IF EMAIL_RE_match(e)
         THEN [st EXCEPT !.seen = @ \cup {lower(e)}, !.out = Append(@, e)]
         ELSE [st EXCEPT !.seen = @ \cup {lower(e)}, !.out = Append(@, e),
                         !.warn = Append(@, ParseWarning(e))]

parseStepKeepLast(st, p) ==
    LET e == strip(p)
        drop(q) == SelectSeq(q, LAMBDA x : lower(x) # lower(e))
    IN
    IF e = <<>> THEN st
    ELSE IF EMAIL_RE_match(e)
         THEN [st EXCEPT !.seen = @ \cup {lower(e)}, !.out = Append(drop(@), e)]
         ELSE [st EXCEPT !.seen = @ \cup {lower(e)}, !.out = Append(drop(@), e),
                         !.warn = Append(@, ParseWarning(e))]

\* Defective variant of parseStep: an entry that fails the shape check is
\* warned about and left out.
parseStepDropInvalid(st, p) ==
    LET e == strip(p) IN
    IF e = <<>> THEN st
    ELSE IF EMAIL_RE_match(e)
         THEN IF lower(e) \notin st.seen
              THEN [st EXCEPT !.seen = @ \cup {lower(e)}, !.out = Append(@, e)]
              ELSE st
         ELSE IF lower(e) \notin st.seen
              THEN [st EXCEPT !.seen = @ \cup {lower(e)},
                              !.warn = Append(@, ParseWarning(e))]
              ELSE st

\* One pass of the loop body of parse_receivers over the piece p.
parseStep(st, p) ==
    LET e == strip(p) IN
    IF e = <<>> THEN st
    ELSE IF EMAIL_RE_match(e)
         THEN IF lower(e) \notin st.seen
              THEN [st EXCEPT !.seen = @ \cup {lower(e)}, !.out = Append(@, e)]
              ELSE st
         ELSE IF lower(e) \notin st.seen
              THEN [st EXCEPT !.seen = @ \cup {lower(e)}, !.out = Append(@, e),
                              !.warn = Append(@, ParseWarning(e))]
              ELSE st

RECURSIVE parseLoop(_, _, _)
parseLoop(parts, k, st) ==
    IF k > Len(parts) THEN st
    ELSE parseLoop(parts, k + 1, parseStep(st, parts[k]))

\* parse_receivers(text): .out is the returned list, .warn the warning
\* lines it logs on the way.
parse_receivers(text) ==
    IF text = <<>> THEN [seen |-> {}, out |-> <<>>, warn |-> <<>>]
    ELSE parseLoop(re_split(text), 1, [seen |-> {}, out |-> <<>>, warn |-> <<>>])


\* ------------------------------------------------------------ float, delay
\* float(x) of the values a delay field carries; anything else ("" from an
\* emptied form field) makes float() raise ValueError.
FloatStrings == {"-1", "0", "1", "2", "5"}
float_ok(x) == x \in FloatStrings
float(x) ==
    CASE x = "-1" -> 0 - 1
      [] x = "0" -> 0
      [] x = "1" -> 1
      [] x = "2" -> 2
      [] x = "5" -> 5

\* random.uniform(a, b): any value of [a, b]
uniform(a, b) == a..b

\* Defective variant of delayChoices: the clamp of lines 101-102 left out.
delayChoicesNoClamp(s) ==
    IF float_ok(s.min_delay) /\ float_ok(s.max_delay)
    THEN LET mind == float(s.min_delay)
             maxd == float(s.max_delay)
         IN IF maxd < mind THEN uniform(maxd, mind) ELSE uniform(mind, maxd)
    ELSE uniform(2, 5)

\* The delay step's try block and its fallback: the set of values `delay`
\* can get from the current settings.
delayChoices(s) ==
    IF float_ok(s.min_delay) /\ float_ok(s.max_delay)
    THEN LET mind == float(s.min_delay)
             maxd == IF float(s.max_delay) < mind THEN mind ELSE float(s.max_delay)
         IN uniform(mind, maxd)
    ELSE uniform(2, 5)

\* --------------------------------------------------------------- payloads
SettingKeys == {"sender_email", "subject", "body", "min_delay", "max_delay"}

TextTwo == <<"a", "@", "b", ".", "c", ",", " ", "A", "@", "b", ".", "C", ";", "x">>
TextOne == <<"x", "\n">>

\* The payloads send_emails is called with: delays in order, delays the
\* wrong way round, a negative delay, an emptied delay field, and a payload
\* that has neither delays nor receivers.
Payloads ==
    { [sender_email |-> "s1", subject |-> "j1", body |-> "h1",
       min_delay |-> "1", max_delay |-> "2", receiver_emails |-> TextTwo],
      [sender_email |-> "s2", subject |-> "j2", body |-> "h2",
       min_delay |-> "2", max_delay |-> "1", receiver_emails |-> TextOne],
      [sender_email |-> "s1", subject |-> "j1", body |-> "h1",
       min_delay |-> "-1", max_delay |-> "0", receiver_emails |-> TextTwo],
      [sender_email |-> "s2", subject |-> "j2", body |-> "h2",
       min_delay |-> "5", max_delay |-> "", receiver_emails |-> TextOne],
      [sender_email |-> "s2", subject |-> "j2", body |-> "h2"] }

\* The receivers texts of SpecParse: every concatenation of at most
\* MaxTokens tokens, and the text of the parser's documented example.
Tokens ==
    { <<"a", "@", "b", ".", "c">>, <<"A", "@", "b", ".", "C">>,
      <<"x">>, <<"X">>, <<",">>, <<";">>, <<"\n">>, <<" ">> }

RECURSIVE TextsOf(_)
TextsOf(n) ==
    IF n = 0 THEN {<<>>}
    ELSE LET shorter == TextsOf(n - 1) IN
         shorter \cup {t \o k : t \in shorter, k \in Tokens}

ExampleText ==
    <<"a","@","b",".","c","o","m", ",", " ", "a","@","B",".","c","o","m", ";",
      " ", "c","@","d",".","c","o","m", "\n", "b","a","d","-","e","n","t","r","y">>

Texts == TextsOf(MaxTokens) \cup {ExampleText}

\* ------------------------------------------------------------------ state
VARIABLES
    settings,   \* the module-level settings dict
    api,        \* API.send_emails in progress: its position and its payload
    nruns,      \* worker threads started so far
    invoked,    \* per worker: the payload of the invocation that started it
    pc,         \* per worker: position in send_bulk_emails
    total,      \* per worker: local `total`
    rlist,      \* per worker: the list object the for loop iterates
    idx,        \* per worker: local `i`
    delay,      \* per worker: local `delay`
    calls,      \* per worker: the SMTP/sleep calls it made, with outcomes
    log         \* per thread: the lines it passed to log_message

vars == <<settings, api, nruns, invoked, pc, total, rlist, idx, delay, calls, log>>

NoPayload == [none |-> TRUE]

Init ==
    /\ settings = [sender_email |-> "", subject |-> "Test Email",
                   body |-> "<html>", min_delay |-> "2", max_delay |-> "5",
                   receiver_list |-> <<>>]
    /\ api = [pc |-> "idle", payload |-> NoPayload]
    /\ nruns = 0
    /\ invoked = [r \in Runs |-> NoPayload]
    /\ pc = [r \in Runs |-> "unstarted"]
    /\ total = [r \in Runs |-> 0]
    /\ rlist = [r \in Runs |-> <<>>]
    /\ idx = [r \in Runs |-> 0]
    /\ delay = [r \in Runs |-> 0]
    /\ calls = [r \in Runs |-> <<>>]
    /\ log = [t \in Threads |-> <<>>]

\* log_message(msg) on thread t
Logged(t, line) == [log EXCEPT ![t] = Append(@, line)]
LoggedAll(t, lines) == [log EXCEPT ![t] = @ \o lines]

workerLocals == <<total, rlist, idx, delay>>
apiVars == <<api, nruns, invoked>>


\* -------------------------------------------------------- API.send_emails
\* Lines 160-162: copy the allowed keys the payload has into settings.
updated(s, p) ==
    [k \in DOMAIN s |->
        IF k \in SettingKeys /\ k \in DOMAIN p THEN p[k] ELSE s[k]]

\* new_settings.get("receiver_emails", "")
receivers_text(p) ==
    IF "receiver_emails" \in DOMAIN p THEN p.receiver_emails ELSE <<>>

\* The call arrives with payload p and updates the settings; at most
\* `limit` calls arrive, one at a time.
SendEmailsUpdate(limit) ==
    /\ api.pc = "idle"
    /\ nruns < limit
    /\ \E p \in Payloads :
          /\ api' = [pc |-> "parse", payload |-> p]
          /\ settings' = updated(settings, p)
    /\ UNCHANGED <<nruns, invoked, pc, workerLocals, calls, log>>

\* Lines 165-168: parse the receivers, store the list, log the count.
SendEmailsLoad ==
    /\ api.pc = "parse"
    /\ LET res == parse_receivers(receivers_text(api.payload)) IN
          /\ settings' = [settings EXCEPT !.receiver_list = res.out]
          /\ log' = LoggedAll(UI, Append(res.warn, <<"Loaded", Len(res.out)>>))
    /\ api' = [api EXCEPT !.pc = "start"]
    /\ UNCHANGED <<nruns, invoked, pc, workerLocals, calls>>

\* Lines 171-175: start the worker thread and return.
SendEmailsStart ==
    /\ api.pc = "start"
    /\ nruns' = nruns + 1
    /\ pc' = [pc EXCEPT ![nruns + 1] = "connect"]
    /\ invoked' = [invoked EXCEPT ![nruns + 1] = api.payload]
    /\ log' = Logged(UI, <<"Background">>)
    /\ api' = [pc |-> "idle", payload |-> NoPayload]
    /\ UNCHANGED <<settings, workerLocals, calls>>

\* ------------------------------------------------------- send_bulk_emails
Call(r, op, ok) == [calls EXCEPT ![r] = Append(@, <<op, ok>>)]

\* The outer handler, line 116: one error line, then the function returns.
Fatal(r, op, lines) ==
    /\ calls' = Call(r, op, FALSE)
    /\ log' = LoggedAll(r, Append(lines, <<"Error", op>>))
    /\ pc' = [pc EXCEPT ![r] = "done"]

\* Lines 63-65: log, then open the connection.
Connect(r) ==
    /\ pc[r] = "connect"
    /\ \/ /\ calls' = Call(r, "connect", TRUE)
          /\ log' = Logged(r, <<"Connecting">>)
          /\ pc' = [pc EXCEPT ![r] = "ehlo"]
       \/ Fatal(r, "connect", << <<"Connecting">> >>)
    /\ UNCHANGED <<settings, apiVars, workerLocals>>

\* Line 66
Ehlo(r) ==
    /\ pc[r] = "ehlo"
    /\ \/ /\ calls' = Call(r, "ehlo", TRUE)
          /\ pc' = [pc EXCEPT ![r] = "starttls"]
          /\ UNCHANGED log
       \/ Fatal(r, "ehlo", <<>>)
    /\ UNCHANGED <<settings, apiVars, workerLocals>>

\* Defective variant of Starttls: a failed upgrade goes to the outer handler.
StarttlsFatal(r) ==
    /\ pc[r] = "starttls"
    /\ \/ /\ calls' = [calls EXCEPT ![r] = @ \o << <<"starttls", TRUE>>, <<"ehlo", TRUE>> >>]
          /\ pc' = [pc EXCEPT ![r] = "login"]
          /\ UNCHANGED log
       \/ Fatal(r, "starttls", <<>>)
    /\ UNCHANGED <<settings, apiVars, workerLocals>>

\* Lines 67-72: the upgrade and the second ehlo; a failure of either is
\* swallowed.
Starttls(r) ==
    /\ pc[r] = "starttls"
    /\ \/ calls' = Call(r, "starttls", FALSE)
       \/ calls' = [calls EXCEPT ![r] = @ \o << <<"starttls", TRUE>>, <<"ehlo", TRUE>> >>]
       \/ calls' = [calls EXCEPT ![r] = @ \o << <<"starttls", TRUE>>, <<"ehlo", FALSE>> >>]
    /\ pc' = [pc EXCEPT ![r] = "login"]
    /\ UNCHANGED <<settings, apiVars, workerLocals, log>>

\* Defective variant of Login: a failed login is logged and the run goes on.
LoginFallsThrough(r) ==
    /\ pc[r] = "login"
    /\ \/ /\ calls' = Call(r, "login", TRUE)
          /\ log' = Logged(r, <<"LoggedIn">>)
       \/ /\ calls' = Call(r, "login", FALSE)
          /\ log' = Logged(r, <<"Error", "login">>)
    /\ pc' = [pc EXCEPT ![r] = "total"]
    /\ UNCHANGED <<settings, apiVars, workerLocals>>

\* Lines 74-75
Login(r) ==
    /\ pc[r] = "login"
    /\ \/ /\ calls' = Call(r, "login", TRUE)
          /\ log' = Logged(r, <<"LoggedIn">>)
          /\ pc' = [pc EXCEPT ![r] = "total"]
       \/ Fatal(r, "login", <<>>)
    /\ UNCHANGED <<settings, apiVars, workerLocals>>

\* Defective variant of ReadTotal: the return of line 80 left out.
ReadTotalNoReturn(r) ==
    /\ pc[r] = "total"
    /\ total' = [total EXCEPT ![r] = Len(settings.receiver_list)]
    /\ IF Len(settings.receiver_list) = 0
       THEN log' = Logged(r, <<"NoRecipients">>)
       ELSE UNCHANGED log
    /\ pc' = [pc EXCEPT ![r] = "loop"]
    /\ UNCHANGED <<settings, apiVars, rlist, idx, delay, calls>>

\* Lines 77-80: read the length; return at once when it is zero.
ReadTotal(r) ==
    /\ pc[r] = "total"
    /\ total' = [total EXCEPT ![r] = Len(settings.receiver_list)]
    /\ IF Len(settings.receiver_list) = 0
       THEN /\ log' = Logged(r, <<"NoRecipients">>)
            /\ pc' = [pc EXCEPT ![r] = "done"]
       ELSE /\ pc' = [pc EXCEPT ![r] = "loop"]
            /\ UNCHANGED log
    /\ UNCHANGED <<settings, apiVars, rlist, idx, delay, calls>>

\* The for statement's step: the next (i, recipient), or the loop's end.
advance(r, list, i) ==
    IF i < Len(list)
    THEN /\ idx' = [idx EXCEPT ![r] = i + 1]
         /\ pc' = [pc EXCEPT ![r] = "send"]
    ELSE /\ idx' = idx
         /\ pc' = [pc EXCEPT ![r] = "quit"]

\* Line 82: enumerate() takes the list object settings holds now.
EnterLoop(r) ==
    /\ pc[r] = "loop"
    /\ rlist' = [rlist EXCEPT ![r] = settings.receiver_list]
    /\ advance(r, settings.receiver_list, 0)
    /\ UNCHANGED <<settings, apiVars, total, delay, calls, log>>

\* msg of lines 85-89 and the envelope of line 92, from the settings as
\* they are now.
message(recipient) ==
    [envelope_from |-> settings.sender_email, envelope_to |-> recipient,
     From |-> settings.sender_email, To |-> recipient,
     Subject |-> settings.subject, body |-> settings.body]

\* Defective variants of Send: one opens a connection and logs in for each
\* recipient, one lets a failed send end the run, one goes to the next
\* recipient without the delay when the send failed.
SendSkipsDelayOnFailure(r) ==
    /\ pc[r] = "send"
    /\ LET recipient == strip(rlist[r][idx[r]]) IN
       \/ /\ calls' = [calls EXCEPT ![r] = Append(@, <<"sendmail", TRUE, message(recipient)>>)]
          /\ log' = Logged(r, <<"Sent", recipient, idx[r], total[r]>>)
          /\ pc' = [pc EXCEPT ![r] = "delay"]
          /\ UNCHANGED idx
       \/ /\ calls' = [calls EXCEPT ![r] = Append(@, <<"sendmail", FALSE, message(recipient)>>)]
          /\ log' = Logged(r, <<"Failed", recipient>>)
          /\ advance(r, rlist[r], idx[r])
    /\ UNCHANGED <<settings, apiVars, total, rlist, delay>>

SendReconnects(r) ==
    /\ pc[r] = "send"
    /\ LET recipient == strip(rlist[r][idx[r]]) IN
       \/ /\ calls' = [calls EXCEPT ![r] = @ \o << <<"connect", TRUE>>, <<"login", TRUE>>,
                                                   <<"sendmail", TRUE, message(recipient)>> >>]
          /\ log' = Logged(r, <<"Sent", recipient, idx[r], total[r]>>)
       \/ /\ calls' = [calls EXCEPT ![r] = @ \o << <<"connect", TRUE>>, <<"login", TRUE>>,
                                                   <<"sendmail", FALSE, message(recipient)>> >>]
          /\ log' = Logged(r, <<"Failed", recipient>>)
    /\ pc' = [pc EXCEPT ![r] = "delay"]
    /\ UNCHANGED <<settings, apiVars, workerLocals>>

SendAbortsOnFailure(r) ==
    /\ pc[r] = "send"
    /\ LET recipient == strip(rlist[r][idx[r]]) IN
       \/ /\ calls' = [calls EXCEPT ![r] = Append(@, <<"sendmail", TRUE, message(recipient)>>)]
          /\ log' = Logged(r, <<"Sent", recipient, idx[r], total[r]>>)
          /\ pc' = [pc EXCEPT ![r] = "delay"]
       \/ /\ calls' = [calls EXCEPT ![r] = Append(@, <<"sendmail", FALSE, message(recipient)>>)]
          /\ log' = LoggedAll(r, << <<"Failed", recipient>>, <<"Error", "sendmail">> >>)
          /\ pc' = [pc EXCEPT ![r] = "done"]
    /\ UNCHANGED <<settings, apiVars, workerLocals>>

\* Lines 83-95: build, send, log the outcome; a failure is logged and
\* swallowed.
Send(r) ==
    /\ pc[r] = "send"
    /\ LET recipient == strip(rlist[r][idx[r]]) IN
       \/ /\ calls' = [calls EXCEPT ![r] = Append(@, <<"sendmail", TRUE, message(recipient)>>)]
          /\ log' = Logged(r, <<"Sent", recipient, idx[r], total[r]>>)
       \/ /\ calls' = [calls EXCEPT ![r] = Append(@, <<"sendmail", FALSE, message(recipient)>>)]
          /\ log' = Logged(r, <<"Failed", recipient>>)
    /\ pc' = [pc EXCEPT ![r] = "delay"]
    /\ UNCHANGED <<settings, apiVars, workerLocals>>

\* Lines 98-106: draw the delay and log it.
Delay(r) ==
    /\ pc[r] = "delay"
    /\ \E d \in delayChoices(settings) : delay' = [delay EXCEPT ![r] = d]
    /\ log' = Logged(r, <<"Waiting">>)
    /\ pc' = [pc EXCEPT ![r] = "sleep"]
    /\ UNCHANGED <<settings, apiVars, total, rlist, idx, calls>>

\* Defective variant of Sleep: the exception of time.sleep leaves the
\* function.
SleepUncaught(r) ==
    /\ pc[r] = "sleep"
    /\ IF delay[r] < 0
       THEN /\ calls' = Call(r, "sleep", FALSE)
            /\ pc' = [pc EXCEPT ![r] = "crashed"]
            /\ UNCHANGED <<idx, log>>
       ELSE /\ calls' = Call(r, "sleep", TRUE)
            /\ advance(r, rlist[r], idx[r])
            /\ UNCHANGED log
    /\ UNCHANGED <<settings, apiVars, total, rlist, delay>>

\* Line 107: time.sleep raises ValueError on a negative length, and that
\* is outside the loop's try blocks, so the outer handler takes it.
Sleep(r) ==
    /\ pc[r] = "sleep"
    /\ IF delay[r] < 0
       THEN /\ Fatal(r, "sleep", <<>>)
            /\ UNCHANGED idx
       ELSE /\ calls' = Call(r, "sleep", TRUE)
            /\ advance(r, rlist[r], idx[r])
            /\ UNCHANGED log
    /\ UNCHANGED <<settings, apiVars, total, rlist, delay>>

\* Defective variant of Quit: a failed quit goes to the outer handler.
QuitFatal(r) ==
    /\ pc[r] = "quit"
    /\ \/ /\ calls' = Call(r, "quit", TRUE)
          /\ log' = Logged(r, <<"AllProcessed">>)
          /\ pc' = [pc EXCEPT ![r] = "done"]
       \/ Fatal(r, "quit", <<>>)
    /\ UNCHANGED <<settings, apiVars, workerLocals>>

\* Lines 109-114: quit, whose failure is swallowed, then the final line.
Quit(r) ==
    /\ pc[r] = "quit"
    /\ \E ok \in BOOLEAN : calls' = Call(r, "quit", ok)
    /\ log' = Logged(r, <<"AllProcessed">>)
    /\ pc' = [pc EXCEPT ![r] = "done"]
    /\ UNCHANGED <<settings, apiVars, workerLocals>>

Worker(r) ==
    \/ Connect(r)
    \/ Ehlo(r)
    \/ Starttls(r)
    \/ Login(r)
    \/ ReadTotal(r)
    \/ EnterLoop(r)
    \/ Send(r)
    \/ Delay(r)
    \/ Sleep(r)
    \/ Quit(r)

Next ==
    \/ SendEmailsUpdate(MaxInvocations)
    \/ SendEmailsLoad
    \/ SendEmailsStart
    \/ \E r \in Runs : Worker(r)

\* One invocation and its worker.
Spec == Init /\ [][Next]_vars

NextOverlap ==
    \/ SendEmailsUpdate(MaxRuns)
    \/ SendEmailsLoad
    \/ SendEmailsStart
    \/ \E r \in Runs : Worker(r)

\* Further invocations arrive while earlier workers are still running.
SpecOverlap == Init /\ [][NextOverlap]_vars

\* parse_receivers on every text of Texts: send_emails called with a
\* payload that carries only the receivers text, about to parse it.
InitParse ==
    /\ settings = [sender_email |-> "", subject |-> "Test Email",
                   body |-> "<html>", min_delay |-> "2", max_delay |-> "5",
                   receiver_list |-> <<>>]
    /\ \E t \in Texts : api = [pc |-> "parse", payload |-> [receiver_emails |-> t]]
    /\ nruns = 0
    /\ invoked = [r \in Runs |-> NoPayload]
    /\ pc = [r \in Runs |-> "unstarted"]
    /\ total = [r \in Runs |-> 0]
    /\ rlist = [r \in Runs |-> <<>>]
    /\ idx = [r \in Runs |-> 0]
    /\ delay = [r \in Runs |-> 0]
    /\ calls = [r \in Runs |-> <<>>]
    /\ log = [t \in Threads |-> <<>>]

SpecParse == InitParse /\ [][SendEmailsLoad]_vars


\* ================================================================ claims
Last(q) == q[Len(q)]
LinesOfKind(r, kind) == SelectSeq(log[r], LAMBDA l : l[1] = kind)
CallsOf(r, op) == SelectSeq(calls[r], LAMBDA c : c[1] = op)
Attempts(r) == CallsOf(r, "sendmail")
Made(r, call) == \E k \in 1..Len(calls[r]) : calls[r][k] = call
\* The recipient list parsed by the invocation that started worker r.
ListOf(r) == parse_receivers(receivers_text(invoked[r])).out
RunningPcs == {"connect", "ehlo", "starttls", "login", "total", "loop",
               "send", "delay", "sleep", "quit"}

\* C1 (as stated): once login succeeded on a non-empty list, a finished run
\* has made exactly one sendmail attempt per recipient, in list order, has
\* one failure line per failed attempt, and ended with the completion line.
C1_EveryRecipientAttempted ==
    \A r \in Runs :
        (pc[r] = "done" /\ Made(r, <<"login", TRUE>>) /\ ListOf(r) # <<>>) =>
            /\ Len(Attempts(r)) = Len(ListOf(r))
            /\ \A k \in 1..Len(Attempts(r)) : Attempts(r)[k][3].To = ListOf(r)[k]
            /\ Len(LinesOfKind(r, "Failed"))
                 = Len(SelectSeq(Attempts(r), LAMBDA c : ~c[2]))
            /\ Last(log[r]) = <<"AllProcessed">>

\* C2: when the connection cannot be opened or the login fails, the run is
\* over: no sendmail attempt, exactly one error line (the last line), no
\* success line, no completion line.
C2_FatalConnectOrLogin ==
    \A r \in Runs :
        (Made(r, <<"connect", FALSE>>) \/ Made(r, <<"login", FALSE>>)) =>
            /\ pc[r] = "done"
            /\ Attempts(r) = <<>>
            /\ Len(LinesOfKind(r, "Error")) = 1
            /\ Last(log[r])[1] = "Error"
            /\ LinesOfKind(r, "Sent") = <<>>
            /\ LinesOfKind(r, "AllProcessed") = <<>>

C2_Witness ==
    \E r \in Runs : Made(r, <<"login", FALSE>>) /\ pc[r] = "done"

\* C3 (as stated): a finished run on a list of length N whose sendmail
\* calls all succeeded has logged exactly the N lines
\* "Sent to <recipient k> (k/N)", k = 1..N, in this order.
C3_AllSuccessLines ==
    \A r \in Runs :
        (/\ pc[r] = "done"
         /\ Made(r, <<"login", TRUE>>)
         /\ \A k \in 1..Len(Attempts(r)) : Attempts(r)[k][2]) =>
            LinesOfKind(r, "Sent")
              = [k \in 1..Len(ListOf(r)) |->
                    <<"Sent", ListOf(r)[k], k, Len(ListOf(r))>>]

\* C4 (as stated): a run whose recipient list is empty opens no connection
\* and attempts no login.
C4_NoNetworkWhenEmpty ==
    \A r \in Runs :
        (pc[r] # "unstarted" /\ ListOf(r) = <<>>) => calls[r] = <<>>

\* C4 (amended): the emptiness check comes after a successful connect and
\* login; a run that finds the list empty there logs the no-recipients
\* line as its last line and is over, without any sendmail attempt.
C4_EmptyListAfterLogin ==
    \A r \in Runs :
        /\ (Made(r, <<"login", TRUE>>) /\ pc[r] # "total") =>
              (total[r] = 0 <=> LinesOfKind(r, "NoRecipients") # <<>>)
        /\ LinesOfKind(r, "NoRecipients") # <<>> =>
              /\ pc[r] = "done"
              /\ Last(log[r]) = <<"NoRecipients">>
              /\ Attempts(r) = <<>>
              /\ Made(r, <<"connect", TRUE>>)
              /\ Made(r, <<"login", TRUE>>)

C4_Witness ==
    \E r \in Runs : pc[r] = "done" /\ Last(log[r]) = <<"NoRecipients">>

\* C5: a run opens exactly one connection, logs in at most once, and every
\* sendmail comes after that connect and after the successful login.
C5_OneSession ==
    \A r \in Runs :
        /\ Len(CallsOf(r, "connect")) = (IF pc[r] \in {"unstarted", "connect"} THEN 0 ELSE 1)
        /\ Len(CallsOf(r, "login")) <= 1
        /\ \A k \in 1..Len(calls[r]) :
              calls[r][k][1] = "sendmail" =>
                 /\ calls[r][1] = <<"connect", TRUE>>
                 /\ \E j \in 2..(k - 1) : calls[r][j] = <<"login", TRUE>>

C5_Witness ==
    \E r \in Runs : Len(Attempts(r)) = 2 /\ pc[r] = "done"

\* C6: a run that has stopped has returned from send_bulk_emails, and the
\* last thing it did was log the completion line, the no-recipients line or
\* the error line, of which there is at most one.
C6_EndsLogged ==
    \A r \in Runs :
        /\ pc[r] \notin RunningPcs \cup {"unstarted"} =>
              /\ pc[r] = "done"
              /\ Last(log[r])[1] \in {"AllProcessed", "NoRecipients", "Error"}
        /\ Len(LinesOfKind(r, "Error")) <= 1

C6_Witness ==
    \E r \in Runs :
        /\ pc[r] = "done"
        /\ Last(calls[r]) = <<"sleep", FALSE>>
        /\ Last(log[r]) = <<"Error", "sleep">>

\* The value the invocation that started r supplied for a key, compared
\* with the value the run used.
Supplied(r, key, used) == key \in DOMAIN invoked[r] => used = invoked[r][key]

\* C7 (as stated): every message of a run carries the sender, subject and
\* body of the invocation that started the run, and its delays are drawn
\* from that invocation's bounds.
C7_ConfigurationFixed ==
    \A r \in Runs :
        /\ \A k \in 1..Len(Attempts(r)) :
              LET m == Attempts(r)[k][3] IN
              /\ Supplied(r, "sender_email", m.From)
              /\ Supplied(r, "subject", m.Subject)
              /\ Supplied(r, "body", m.body)
        /\ pc[r] = "sleep" => delay[r] \in delayChoices(updated(settings, invoked[r]))

\* C8 (as stated): the recipients a worker sends to are those of the list
\* parsed by the invocation that started it, in order.
C8_ListCaptured ==
    \A r \in Runs :
        /\ Len(Attempts(r)) <= Len(ListOf(r))
        /\ \A k \in 1..Len(Attempts(r)) : Attempts(r)[k][3].To = ListOf(r)[k]
        /\ (pc[r] = "done" /\ Last(log[r]) = <<"AllProcessed">>) =>
              Len(Attempts(r)) = Len(ListOf(r))


\* ------------------------------------------------ parse_receivers claims
\* What the claims call the fragments of a text, said without the code's
\* loop: the maximal delimiter-free stretches, trimmed, the empty ones left
\* out; and the first occurrences among them under case-insensitive
\* equality.
RECURSIVE Ascending(_)
Ascending(S) ==
    IF S = {} THEN <<>>
    ELSE LET m == CHOOSE x \in S : \A y \in S : x <= y
         IN <<m>> \o Ascending(S \ {m})

StretchStarts(text) ==
    {b \in 1..Len(text) :
        text[b] \notin Delims /\ (b = 1 \/ text[b - 1] \in Delims)}

StretchEnd(text, b) ==
    CHOOSE e \in b..Len(text) :
        /\ \A k \in b..e : text[k] \notin Delims
        /\ e = Len(text) \/ text[e + 1] \in Delims

Trimmed(text, b, e) ==
    LET ink == {k \in b..e : text[k] \notin Whitespace} IN
    IF ink = {} THEN <<>>
    ELSE SubSeq(text, CHOOSE k \in ink : \A j \in ink : k <= j,
                      CHOOSE k \in ink : \A j \in ink : k >= j)

Fragments(text) ==
    LET starts == Ascending(StretchStarts(text))
        all == [k \in 1..Len(starts) |->
                   Trimmed(text, starts[k], StretchEnd(text, starts[k]))]
    IN SelectSeq(all, LAMBDA f : f # <<>>)

FirstOccurrences(f) ==
    LET keep == Ascending({k \in 1..Len(f) :
                             \A j \in 1..(k - 1) : lower(f[j]) # lower(f[k])})
    IN [n \in 1..Len(keep) |-> f[keep[n]]]

ParsedText == receivers_text(api.payload)

\* C9: the list parse_receivers returned for a text has no two entries
\* that are equal when compared case-insensitively.
C9_NoCaseDuplicates ==
    api.pc = "start" =>
        \A i, j \in 1..Len(settings.receiver_list) :
            i # j => lower(settings.receiver_list[i]) # lower(settings.receiver_list[j])

C9_Witness ==
    /\ api.pc = "start"
    /\ Len(settings.receiver_list) >= 2
    /\ Len(Fragments(ParsedText)) > Len(settings.receiver_list)

\* C10: the list parse_receivers returned is the sequence of the text's
\* fragments with every fragment kept in the spelling and at the place of
\* its first occurrence; the documented example yields a@b.com, c@d.com,
\* bad-entry.
C10_FirstSeenOrder ==
    api.pc = "start" =>
        /\ settings.receiver_list = FirstOccurrences(Fragments(ParsedText))
        /\ ParsedText = ExampleText =>
              settings.receiver_list
                = << <<"a","@","b",".","c","o","m">>, <<"c","@","d",".","c","o","m">>,
                     <<"b","a","d","-","e","n","t","r","y">> >>

C10_Witness ==
    /\ api.pc = "start"
    /\ ParsedText = ExampleText
    /\ Len(settings.receiver_list) = 3

\* C11: no fragment is dropped for failing the shape check: every fragment
\* of the text is in the returned list, itself or an earlier fragment equal
\* to it case-insensitively; the warning lines are exactly one line for each
\* returned entry that fails the shape check, in the list's order, and none
\* for an entry that passes it.
C11_InvalidKeptAndFlaggedOnce ==
    api.pc = "start" =>
        LET f == Fragments(ParsedText)
            out == settings.receiver_list
            suspect == SelectSeq(out, LAMBDA e : ~EMAIL_RE_match(e))
        IN
        /\ \A k \in 1..Len(f) :
              \E m \in 1..k :
                 /\ lower(f[m]) = lower(f[k])
                 /\ \E j \in 1..Len(out) : out[j] = f[m]
        /\ LinesOfKind(UI, "Warning")
             = [n \in 1..Len(suspect) |-> <<"Warning", suspect[n]>>]

C11_Witness ==
    /\ api.pc = "start"
    /\ Len(LinesOfKind(UI, "Warning")) = 1
    /\ Len(settings.receiver_list) = 2
    /\ \E j \in 1..2 : EMAIL_RE_match(settings.receiver_list[j])

\* ------------------------------------------------------------ delay claims
\* Worker r draws its delay in this step.
Draws(r) == pc[r] = "delay" /\ pc'[r] = "sleep"

\* C12 (as stated): every delay drawn lies within the configured bounds,
\* min_delay <= delay <= max(min_delay, max_delay), whatever the two
\* settings carry: the lower bound whenever min_delay is a number, the upper
\* bound whenever both are.
C12_DelayWithinConfigured ==
    [][\A r \in Runs :
          Draws(r) =>
             /\ float_ok(settings.min_delay) => float(settings.min_delay) <= delay'[r]
             /\ (float_ok(settings.min_delay) /\ float_ok(settings.max_delay)) =>
                   \/ delay'[r] <= float(settings.min_delay)
                   \/ delay'[r] <= float(settings.max_delay)]_vars

\* C12 (amended): when both settings convert to numbers the delay drawn is
\* at least min_delay and at most the larger of the two, and it is exactly
\* min_delay when max_delay < min_delay; when either does not convert, the
\* delay comes from the default interval [2, 5].
C12_DelayWithinParsedOrDefault ==
    [][\A r \in Runs :
          Draws(r) =>
             IF float_ok(settings.min_delay) /\ float_ok(settings.max_delay)
             THEN /\ float(settings.min_delay) <= delay'[r]
                  /\ \/ delay'[r] <= float(settings.min_delay)
                     \/ delay'[r] <= float(settings.max_delay)
                  /\ float(settings.max_delay) < float(settings.min_delay) =>
                        delay'[r] = float(settings.min_delay)
             ELSE 2 <= delay'[r] /\ delay'[r] <= 5]_vars

C12_Witness ==
    \E r \in Runs :
        /\ pc[r] = "sleep"
        /\ float_ok(settings.min_delay) /\ float_ok(settings.max_delay)
        /\ float(settings.max_delay) < float(settings.min_delay)
        /\ delay[r] = float(settings.min_delay)

\* ------------------------------------------------------------- termination
\* The thread scheduler keeps running every started worker, and every SMTP
\* call and every sleep returns or raises.
SpecFair == Init /\ [][Next]_vars /\ \A r \in Runs : WF_vars(Worker(r))

\* Every started run returns from send_bulk_emails.
TerminatesUnderFairness ==
    \A r \in Runs : (pc[r] = "connect") ~> (pc[r] = "done")

ConnectionOrLoginFailed(r) ==
    \/ Made(r, <<"connect", FALSE>>)
    \/ Len(calls[r]) >= 2 /\ calls[r][2] = <<"ehlo", FALSE>>
    \/ Made(r, <<"login", FALSE>>)

\* C13 (as stated): a run that has terminated did so after processing every
\* recipient of its list, or on a connection or login failure.
C13_EndsProcessedOrConnectionFailure ==
    \A r \in Runs :
        pc[r] = "done" =>
            \/ ConnectionOrLoginFailed(r)
            \/ Len(Attempts(r)) = Len(ListOf(r))

\* --------------------------------------------------------- the send loop
QuitAttempted(r) == CallsOf(r, "quit") # <<>>

\* C14 (as stated): once the worker is in the per-recipient loop no error
\* ends the run: it logs no error line, and it is over only after every
\* recipient of the list it iterates was attempted and the close step was
\* reached.
C14_NoErrorEdgeFromSending ==
    \A r \in Runs :
        Attempts(r) # <<>> =>
            /\ LinesOfKind(r, "Error") = <<>>
            /\ pc[r] = "done" =>
                  /\ Len(Attempts(r)) = Len(rlist[r])
                  /\ QuitAttempted(r)

LoopCompleted(r) == pc[r] = "quit" \/ QuitAttempted(r)

\* C15: the worker sleeps once after every send attempt, failed or not, and
\* before the next attempt or the close step; a run that completed its loop
\* over N recipients has slept exactly N times.
C15_SleepAfterEveryRecipient ==
    \A r \in Runs :
        /\ \A k \in 1..Len(calls[r]) :
              /\ calls[r][k][1] = "sendmail" =>
                    IF k < Len(calls[r])
                    THEN calls[r][k + 1][1] = "sleep"
                    ELSE pc[r] \in {"delay", "sleep"}
              /\ calls[r][k][1] = "sleep" => calls[r][k - 1][1] = "sendmail"
        /\ LoopCompleted(r) =>
              /\ Len(Attempts(r)) = Len(rlist[r])
              /\ CallsOf(r, "sleep") = [n \in 1..Len(rlist[r]) |-> <<"sleep", TRUE>>]

C15_Witness ==
    \E r \in Runs :
        /\ QuitAttempted(r)
        /\ Len(CallsOf(r, "sleep")) = 2
        /\ \E k \in 1..2 : ~Attempts(r)[k][2]

\* C16: after the loop the worker attempts quit exactly once and then logs
\* the completion line as the run's last line, whether quit failed or not,
\* without any error line; the completion line comes only after every
\* recipient of the iterated list was attempted.
C16_QuitOnceThenCompletion ==
    \A r \in Runs :
        /\ Len(CallsOf(r, "quit")) <= 1
        /\ pc[r] = "quit" => ~QuitAttempted(r) /\ Len(Attempts(r)) = Len(rlist[r])
        /\ QuitAttempted(r) =>
              /\ Last(calls[r])[1] = "quit"
              /\ pc[r] = "done"
              /\ Last(log[r]) = <<"AllProcessed">>
              /\ Len(LinesOfKind(r, "AllProcessed")) = 1
              /\ LinesOfKind(r, "Error") = <<>>
        /\ LinesOfKind(r, "AllProcessed") # <<>> =>
              /\ QuitAttempted(r)
              /\ Len(Attempts(r)) = Len(rlist[r])

C16_Witness ==
    \E r \in Runs :
        /\ Made(r, <<"quit", FALSE>>)
        /\ Last(log[r]) = <<"AllProcessed">>
        /\ Len(Attempts(r)) = 2

\* ------------------------------------------------------------ the upgrade
UpgradeAttempted(r) == Len(calls[r]) >= 3 /\ calls[r][3][1] = "starttls"
UpgradeFailed(r) ==
    /\ UpgradeAttempted(r)
    /\ \/ ~calls[r][3][2]
       \/ calls[r][4] = <<"ehlo", FALSE>>

\* C17: starttls is attempted right after the first ehlo succeeded; login
\* is the call that follows the upgrade attempt (starttls alone when it
\* failed, starttls and the second ehlo otherwise), never an earlier one;
\* and a failed upgrade or second ehlo does not end the run or log an error:
\* the run goes on to login.
C17_OpportunisticUpgrade ==
    \A r \in Runs :
        /\ \A k \in 1..Len(calls[r]) :
              /\ calls[r][k][1] = "starttls" =>
                    k = 3 /\ calls[r][2] = <<"ehlo", TRUE>>
              /\ calls[r][k][1] = "login" =>
                    /\ UpgradeAttempted(r)
                    /\ k = (IF calls[r][3][2] THEN 5 ELSE 4)
        /\ UpgradeAttempted(r) =>
              /\ pc[r] # "starttls"
              /\ pc[r] = "login" <=> CallsOf(r, "login") = <<>>
        /\ (UpgradeFailed(r) /\ LinesOfKind(r, "Error") # <<>>) =>
              Last(calls[r]) \in {<<"login", FALSE>>, <<"sleep", FALSE>>}

C17_Witness ==
    \E r \in Runs :
        /\ UpgradeFailed(r)
        /\ \E k \in 1..Len(Attempts(r)) : Attempts(r)[k][2]

\* --------------------------------------------------- session and counters
\* C18 (as stated): a run that has terminated has attempted quit on every
\* session it opened.
C18_SessionClosedOnEveryPath ==
    \A r \in Runs :
        (pc[r] = "done" /\ Made(r, <<"connect", TRUE>>)) => QuitAttempted(r)

\* C19 (as stated): in every success line of a run, 1 <= i <= total and
\* total is the length of the list the run iterates.
C19_CounterWithinTotal ==
    \A r \in Runs :
        \A k \in 1..Len(LinesOfKind(r, "Sent")) :
            LET line == LinesOfKind(r, "Sent")[k] IN
            /\ 1 <= line[3]
            /\ line[3] <= line[4]
            /\ line[4] = Len(rlist[r])

====
